---- MODULE Spec2Model ----
(***************************************************************************)
(* Model of tools/spoof_mx.py: the hand-written DNS query parser           *)
(* (DNSQuery), the response encoder (build_dns_response) and the UDP       *)
(* serving loop (run_dns_spoofer).                                         *)
(*                                                                         *)
(* Conventions.  A bytes object is a sequence of naturals 0..255; a str is *)
(* a sequence of code points.  Python indexes from 0 and TLA+ from 1: the  *)
(* operators At, InRange and Slice keep Python's 0-based positions, so the *)
(* positions in the definitions below are the positions of the source.     *)
(* An operation that can raise returns a record with a field ok; ok=FALSE  *)
(* is the raised exception.                                                *)
(***************************************************************************)
EXTENDS Integers, Sequences, FiniteSets, TLC

(***************************************************************************)
(* Bounds of the model.                                                    *)
(***************************************************************************)
\* most labels in a generated question name
MaxLabels == 2
\* most bytes that follow QCLASS in a generated datagram
MaxExtra == 1

(***************************************************************************)
(* bytes and str primitives                                                *)
(***************************************************************************)
Min(a, b) == IF a <= b THEN a ELSE b

\* data[i] is defined (no IndexError) for a non-negative i
InRange(data, i) == i >= 0 /\ i < Len(data)

\* data[i]
At(data, i) == data[i + 1]

\* data[i:j] for 0 <= i: the slice is cut at the end of the buffer, never raises
Slice(data, i, j) == SubSeq(data, i + 1, Min(j, Len(data)))

\* struct.pack('>H', v)
PackH(v) == << (v \div 256) % 256, v % 256 >>

\* struct.pack('>I', v)
PackI(v) == << (v \div 16777216) % 256, (v \div 65536) % 256, (v \div 256) % 256, v % 256 >>

\* struct.unpack('>H', b)[0] for a two-byte b
UnpackH(b) == (b[1] * 256) + b[2]

\* data.find(b'\x00', start): first position >= start holding a zero byte, -1 if none
RECURSIVE Find0(_, _)
Find0(data, start) ==
  IF start >= Len(data) THEN -1
  ELSE IF At(data, start) = 0 THEN start
  ELSE Find0(data, start + 1)

IsCont(b) == b >= 128 /\ b <= 191

\* bytes.decode('utf-8', errors='ignore'): well-formed sequences of one to
\* four bytes become one code point, every other byte is dropped.
RECURSIVE Utf8DecodeIgnore(_)
Utf8DecodeIgnore(b) ==
  IF b = << >> THEN << >>
  ELSE
    LET n  == Len(b)
        b1 == b[1]
        b2 == IF n >= 2 THEN b[2] ELSE 0
        b3 == IF n >= 3 THEN b[3] ELSE 0
        b4 == IF n >= 4 THEN b[4] ELSE 0
        ok2 == /\ b1 >= 194 /\ b1 <= 223 /\ IsCont(b2)
        lo3 == IF b1 = 224 THEN 160 ELSE 128
        hi3 == IF b1 = 237 THEN 159 ELSE 191
        ok3 == /\ b1 >= 224 /\ b1 <= 239
               /\ b2 >= lo3 /\ b2 <= hi3 /\ IsCont(b3)
        lo4 == IF b1 = 240 THEN 144 ELSE 128
        hi4 == IF b1 = 244 THEN 143 ELSE 191
        ok4 == /\ b1 >= 240 /\ b1 <= 244
               /\ b2 >= lo4 /\ b2 <= hi4 /\ IsCont(b3) /\ IsCont(b4)
    IN  IF b1 < 128 THEN << b1 >> \o Utf8DecodeIgnore(SubSeq(b, 2, n))
        ELSE IF ok2 THEN << ((b1 - 192) * 64) + (b2 - 128) >>
                          \o Utf8DecodeIgnore(SubSeq(b, 3, n))
        ELSE IF ok3 THEN << ((b1 - 224) * 4096) + ((b2 - 128) * 64) + (b3 - 128) >>
                          \o Utf8DecodeIgnore(SubSeq(b, 4, n))
        ELSE IF ok4 THEN << ((b1 - 240) * 262144) + ((b2 - 128) * 4096)
                             + ((b3 - 128) * 64) + (b4 - 128) >>
                          \o Utf8DecodeIgnore(SubSeq(b, 5, n))
        ELSE Utf8DecodeIgnore(SubSeq(b, 2, n))

\* one code point of str.encode('utf-8') (no surrogates in the model)
Utf8EncodeChar(c) ==
  IF c < 128 THEN << c >>
  ELSE IF c < 2048 THEN << 192 + (c \div 64), 128 + (c % 64) >>
  ELSE IF c < 65536
       THEN << 224 + (c \div 4096), 128 + ((c \div 64) % 64), 128 + (c % 64) >>
  ELSE << 240 + (c \div 262144), 128 + ((c \div 4096) % 64),
          128 + ((c \div 64) % 64), 128 + (c % 64) >>

\* str.encode('utf-8')
RECURSIVE Utf8Encode(_)
Utf8Encode(s) ==
  IF s = << >> THEN << >> ELSE Utf8EncodeChar(Head(s)) \o Utf8Encode(Tail(s))

\* one code point of str.lower(): ASCII, Latin-1, and the KELVIN and ANGSTROM
\* signs, whose lower case is an ASCII / Latin-1 letter; the model's inputs
\* hold no other cased code point.
LowerChar(c) ==
  IF c >= 65 /\ c <= 90 THEN c + 32
  ELSE IF c >= 192 /\ c <= 222 /\ c # 215 THEN c + 32
  ELSE IF c = 8490 THEN 107
  ELSE IF c = 8491 THEN 229
  ELSE c

\* str.lower()
Lower(s) == [i \in 1..Len(s) |-> LowerChar(s[i])]

\* '.'.join(parts)
RECURSIVE JoinDots(_)
JoinDots(parts) ==
  IF parts = << >> THEN << >>
  ELSE IF Len(parts) = 1 THEN parts[1]
  ELSE parts[1] \o << 46 >> \o JoinDots(Tail(parts))

\* s.split('.'): always at least one part, empty parts kept
RECURSIVE SplitDots(_, _, _)
SplitDots(s, i, cur) ==
  IF i > Len(s) THEN << cur >>
  ELSE IF s[i] = 46 THEN << cur >> \o SplitDots(s, i + 1, << >>)
  ELSE SplitDots(s, i + 1, Append(cur, s[i]))

Split(s) == SplitDots(s, 1, << >>)

(***************************************************************************)
(* class DNSQuery                                                          *)
(***************************************************************************)
\* the IndexError a read past the end of the buffer raises
DecodeError == [ok |-> FALSE, domain |-> << >>, qtype |-> 0, qclass |-> 0, pos |-> 0]

\* variant of ParseTail: QTYPE and QCLASS are read low byte first
ParseTailLittleEndian(data, parts, pos) ==
  IF pos + 4 <= Len(data)
  THEN [ok |-> TRUE, domain |-> JoinDots(parts),
        qtype |-> (At(data, pos + 1) * 256) + At(data, pos),
        qclass |-> (At(data, pos + 3) * 256) + At(data, pos + 2), pos |-> pos]
  ELSE [ok |-> TRUE, domain |-> JoinDots(parts), qtype |-> 0, qclass |-> 0, pos |-> pos]

\* lines 38-47: the name is complete; pos is the position after its terminator
ParseTail(data, parts, pos) ==
  IF pos + 4 <= Len(data)
  THEN [ok |-> TRUE, domain |-> JoinDots(parts),
        qtype |-> UnpackH(Slice(data, pos, pos + 2)),
        qclass |-> UnpackH(Slice(data, pos + 2, pos + 4)), pos |-> pos]
  ELSE [ok |-> TRUE, domain |-> JoinDots(parts), qtype |-> 0, qclass |-> 0, pos |-> pos]

\* variant of ParseLabels: a length byte past the end of the buffer is taken
\* for the terminator instead of raising
RECURSIVE ParseLabelsUnchecked(_, _, _)
ParseLabelsUnchecked(data, pos, parts) ==
  LET length == At(data, pos) IN
  IF length = 0 THEN ParseTail(data, parts, pos + 1)
  ELSE LET part == Utf8DecodeIgnore(Slice(data, pos + 1, pos + 1 + length))
           next == pos + 1 + length
       IN  IF InRange(data, next)
           THEN ParseLabelsUnchecked(data, next, Append(parts, part))
           ELSE ParseTail(data, Append(parts, part), next + 1)

\* lines 32-36: the loop; pos is in range and holds the length byte just read
RECURSIVE ParseLabels(_, _, _)
ParseLabels(data, pos, parts) ==
  LET length == At(data, pos) IN
  IF length = 0 THEN ParseTail(data, parts, pos + 1)
  ELSE LET part == Utf8DecodeIgnore(Slice(data, pos + 1, pos + 1 + length))
           next == pos + 1 + length
       IN  IF InRange(data, next)
           THEN ParseLabels(data, next, Append(parts, part))
           ELSE DecodeError

\* DNSQuery(data)
DNSQuery(data) ==
  IF InRange(data, 12) THEN ParseLabels(data, 12, << >>) ELSE DecodeError

(***************************************************************************)
(* build_dns_response                                                      *)
(***************************************************************************)
\* an exception of class e leaves the function
Raised(e) == [ok |-> FALSE, bytes |-> << >>, error |-> e]

\* the function returns b
Returned(b) == [ok |-> TRUE, bytes |-> b, error |-> "none"]

IsDigit(c) == c >= 48 /\ c <= 57

\* s.strip() of int(): leading and trailing spaces are dropped
RECURSIVE LStrip(_)
LStrip(s) == IF s # << >> /\ Head(s) = 32 THEN LStrip(Tail(s)) ELSE s

RECURSIVE RStrip(_)
RStrip(s) ==
  IF s # << >> /\ s[Len(s)] = 32 THEN RStrip(SubSeq(s, 1, Len(s) - 1)) ELSE s

\* the digits of int(): at least one digit, single underscores between digits
RECURSIVE DigitsValue(_, _, _)
DigitsValue(s, i, acc) ==
  IF i > Len(s) THEN [ok |-> TRUE, val |-> acc]
  ELSE IF IsDigit(s[i]) THEN DigitsValue(s, i + 1, (acc * 10) + (s[i] - 48))
  ELSE IF /\ s[i] = 95 /\ i > 1 /\ i < Len(s)
          /\ IsDigit(s[i - 1]) /\ IsDigit(s[i + 1])
       THEN DigitsValue(s, i + 1, acc)
  ELSE [ok |-> FALSE, val |-> 0]

\* int(p) for a str of ASCII characters; ok = FALSE is ValueError
ParseInt(p) ==
  LET t    == RStrip(LStrip(p))
      neg  == t # << >> /\ t[1] = 45
      sign == t # << >> /\ (t[1] = 45 \/ t[1] = 43)
      d    == IF sign THEN Tail(t) ELSE t
      v    == IF d = << >> THEN [ok |-> FALSE, val |-> 0] ELSE DigitsValue(d, 1, 0)
  IN  [ok |-> v.ok, val |-> IF neg THEN 0 - v.val ELSE v.val]

\* lines 120-121: [int(p) for p in attacker_ip.split('.')], struct.pack('BBBB', ...)
IpBytes(attacker_ip) ==
  LET parts == Split(attacker_ip)
      ints  == [i \in 1..Len(parts) |-> ParseInt(parts[i])]
  IN  IF \E i \in 1..Len(parts) : ~ints[i].ok THEN Raised("ValueError")
      ELSE IF Len(parts) # 4 THEN Raised("struct.error")
      ELSE IF \E i \in 1..4 : ints[i].val < 0 \/ ints[i].val > 255
           THEN Raised("struct.error")
      ELSE Returned([i \in 1..4 |-> ints[i].val])

\* lines 99-102: the labels of attacker_mx_name, each behind struct.pack('B', len(part))
RECURSIVE EncodeParts(_)
EncodeParts(parts) ==
  IF parts = << >> THEN Returned(<< 0 >>)
  ELSE LET rest == EncodeParts(Tail(parts)) IN
       IF Len(Head(parts)) > 255 \/ ~rest.ok THEN Raised("struct.error")
       ELSE Returned(<< Len(Head(parts)) >> \o Utf8Encode(Head(parts)) \o rest.bytes)

MxNameEncoded(attacker_mx_name) == EncodeParts(Split(attacker_mx_name))

\* line 69: answer_rrs
AnswerRrs(query) == IF query.qtype = 15 THEN 1 ELSE 0

\* line 71: additional_rrs
AdditionalRrs(query) == IF query.qtype = 15 THEN 1 ELSE 0

\* variant of ResponseFlags: the flags of the query with the QR bit set
ResponseFlagsFromQuery(query_data) ==
  << 128 + (At(query_data, 2) % 128), At(query_data, 3) >>

\* line 67: flags
ResponseFlags(query_data) == PackH(33152)

\* variant of Header: the transaction id is left zero
HeaderZeroId(query_data, query) ==
  PackH(0) \o ResponseFlags(query_data) \o PackH(1)
    \o PackH(AnswerRrs(query)) \o PackH(0) \o PackH(AdditionalRrs(query))

\* variant of Header: the question count is the one of the query
HeaderEchoesCount(query_data, query) ==
  Slice(query_data, 0, 2) \o ResponseFlags(query_data) \o Slice(query_data, 4, 6)
    \o PackH(AnswerRrs(query)) \o PackH(0) \o PackH(AdditionalRrs(query))

\* lines 66-73
Header(query_data, query) ==
  Slice(query_data, 0, 2) \o ResponseFlags(query_data) \o PackH(1)
    \o PackH(AnswerRrs(query)) \o PackH(0) \o PackH(AdditionalRrs(query))

\* lines 76-78
Question(query_data) == Slice(query_data, 12, Find0(query_data, 12) + 5)

\* variant of ShouldForge: every MX query is answered with the forged records
ShouldForgeAnyMx(query, forged_domain) == query.qtype = 15

\* line 83
ShouldForge(query, forged_domain) ==
  query.qtype = 15 /\ Lower(query.domain) = Lower(forged_domain)

\* variant of MxAnswer: RDLENGTH counts the name and not the preference
MxAnswerNameLength(mx_name_encoded) ==
  PackH(49164) \o PackH(15) \o PackH(1) \o PackI(300)
    \o PackH(Len(mx_name_encoded)) \o PackH(10) \o mx_name_encoded

\* lines 86-106
MxAnswer(mx_name_encoded) ==
  PackH(49164) \o PackH(15) \o PackH(1) \o PackI(300)
    \o PackH(2 + Len(mx_name_encoded)) \o PackH(10) \o mx_name_encoded

\* variant of ARecord: the address octets are written in reverse order
ARecordReversedIp(mx_name_encoded, ip_bytes) ==
  (SubSeq(mx_name_encoded, 1, Len(mx_name_encoded) - 1) \o << 0 >>)
    \o PackH(1) \o PackH(1) \o PackI(300) \o PackH(4)
    \o [i \in 1..Len(ip_bytes) |-> ip_bytes[Len(ip_bytes) + 1 - i]]

\* variant of ARecord: the name is a pointer to the target inside the MX RDATA
ARecordCompressedName(mx_name_encoded, ip_bytes) ==
  PackH(49152 + 33)
    \o PackH(1) \o PackH(1) \o PackI(300) \o PackH(4) \o ip_bytes

\* lines 111-124
ARecord(mx_name_encoded, ip_bytes) ==
  (SubSeq(mx_name_encoded, 1, Len(mx_name_encoded) - 1) \o << 0 >>)
    \o PackH(1) \o PackH(1) \o PackI(300) \o PackH(4) \o ip_bytes

\* variant of BuildDnsResponse: the additional record is appended before the
\* answer
BuildDnsResponseAFirst(query_data, forged_domain, attacker_ip, attacker_mx_name) ==
  LET query == DNSQuery(query_data) IN
  IF ~query.ok THEN Raised("IndexError")
  ELSE
    LET response == Header(query_data, query) \o Question(query_data) IN
    IF ~ShouldForge(query, forged_domain) THEN Returned(response)
    ELSE
      LET mx == MxNameEncoded(attacker_mx_name)
          ip == IpBytes(attacker_ip)
      IN  IF ~mx.ok THEN mx
          ELSE IF ~ip.ok THEN ip
          ELSE Returned(response \o ARecord(mx.bytes, ip.bytes) \o MxAnswer(mx.bytes))

\* build_dns_response(query_data, forged_domain, attacker_ip, attacker_mx_name)
BuildDnsResponse(query_data, forged_domain, attacker_ip, attacker_mx_name) ==
  LET query == DNSQuery(query_data) IN
  IF ~query.ok THEN Raised("IndexError")
  ELSE
    LET response == Header(query_data, query) \o Question(query_data) IN
    IF ~ShouldForge(query, forged_domain) THEN Returned(response)
    ELSE
      LET mx == MxNameEncoded(attacker_mx_name)
          ip == IpBytes(attacker_ip)
      IN  IF ~mx.ok THEN mx
          ELSE IF ~ip.ok THEN ip
          ELSE Returned(response \o MxAnswer(mx.bytes) \o ARecord(mx.bytes, ip.bytes))

(***************************************************************************)
(* Inputs: the command line of main and the datagrams of the network       *)
(***************************************************************************)
\* --domain: "a.b" and "A.B"
ForgedDomains == { << 97, 46, 98 >>, << 65, 46, 66 >> }

\* --attacker-ip: "10.0.0.66", "192.168.1.100", "1.2.3" (three parts),
\* "256.0.0.1" (256 is no octet)
AttackerIps ==
  { << 49, 48, 46, 48, 46, 48, 46, 54, 54 >>,
    << 49, 57, 50, 46, 49, 54, 56, 46, 49, 46, 49, 48, 48 >>,
    << 49, 46, 50, 46, 51 >>,
    << 50, 53, 54, 46, 48, 46, 48, 46, 49 >> }

\* --attacker-mx: "m.a.b" and "x"
AttackerMxs == { << 109, 46, 97, 46, 98 >>, << 120 >> }

\* the arguments main hands to run_dns_spoofer
Configs ==
  [forged_domain : ForgedDomains, attacker_ip : AttackerIps,
   attacker_mx : AttackerMxs, verbose : BOOLEAN]

\* the 12-byte headers of the generated queries: transaction id, flags,
\* question count, then three zero counts
QueryHeaders ==
  { << 18, 52, 1, 0, 0, 1, 0, 0, 0, 0, 0, 0 >>,
    << 171, 205, 0, 0, 0, 2, 0, 0, 0, 0, 0, 0 >>,
    << 0, 255, 40, 0, 0, 0, 0, 0, 0, 0, 0, 0 >> }

\* the labels of the generated names: "a", "b", "A", a label holding a zero
\* byte, one holding a byte that is not UTF-8, and one holding a '.'
WireLabels ==
  { << 97 >>, << 98 >>, << 65 >>, << 97, 0 >>, << 97, 255 >>, << 97, 46, 98 >> }

\* the label sequences of at most n labels
RECURSIVE LabelSeqs(_)
LabelSeqs(n) ==
  IF n = 0 THEN { << >> }
  ELSE LET shorter == LabelSeqs(n - 1) IN
       shorter \cup { Append(ls, l) : ls \in { x \in shorter : Len(x) = n - 1 },
                                       l \in WireLabels }

\* a name on the wire: each label behind its length byte, then the terminator
RECURSIVE WireName(_)
WireName(labels) ==
  IF labels = << >> THEN << 0 >>
  ELSE << Len(Head(labels)) >> \o Head(labels) \o WireName(Tail(labels))

\* the query types of the generated queries: A, MX
QueryTypes == { 1, 15 }

\* the bytes that may follow QCLASS
Extras == { [i \in 1..n |-> 0] : n \in 0..MaxExtra }

\* the complete queries a client may send
FullQueries ==
  { h \o WireName(ls) \o PackH(qt) \o PackH(1) \o x :
      h \in QueryHeaders, ls \in LabelSeqs(MaxLabels), qt \in QueryTypes, x \in Extras }

\* what recvfrom may return: a complete query or any prefix of one
Datagrams == UNION { { SubSeq(d, 1, n) : n \in 0..Len(d) } : d \in FullQueries }

\* the hosts that send datagrams
Addrs == { "h1", "h2" }

(***************************************************************************)
(* main: the command line and its defaults                                 *)
(***************************************************************************)
\* line 207: default='example.com'
DefaultDomain == << 101, 120, 97, 109, 112, 108, 101, 46, 99, 111, 109 >>

\* line 209: default='10.0.0.66'
DefaultAttackerIp == << 49, 48, 46, 48, 46, 48, 46, 54, 54 >>

\* variant of DefaultAttackerMx: another host name is the default
DefaultAttackerMxOther == << 109, 120, 46, 101, 120, 97, 109, 112, 108, 101, 46, 99, 111, 109 >>

\* line 211: default='att.example.com'
DefaultAttackerMx == << 97, 116, 116, 46, 101, 120, 97, 109, 112, 108, 101, 46, 99, 111, 109 >>

\* an option is << >> when it is omitted and << value >> when it is given;
\* --domain company.com, --attacker-ip 10.0.0 (three parts), -q, and
\* --attacker-mx mail.company.com or att.example.com. (with the dot of a fully
\* qualified name)
CommandLines ==
  [domain      : { << >>, << << 99, 111, 109, 112, 97, 110, 121, 46, 99, 111, 109 >> >> },
   attacker_ip : { << >>, << << 49, 48, 46, 48, 46, 48 >> >> },
   attacker_mx : { << >>,
                   << << 109, 97, 105, 108, 46, 99, 111, 109, 112, 97, 110, 121, 46, 99, 111, 109 >> >>,
                   << DefaultAttackerMx \o << 46 >> >> },
   quiet       : BOOLEAN]

\* run_dns_spoofer was called without main: there is no command line
NoArgv == [domain |-> << >>, attacker_ip |-> << >>, attacker_mx |-> << >>,
           quiet |-> FALSE, main |-> FALSE]

\* the value of an option after parse_args
OptionOr(opt, default) == IF opt = << >> THEN default ELSE opt[1]

\* lines 216-225: the arguments main hands to run_dns_spoofer
ConfigOf(args) ==
  [forged_domain |-> OptionOr(args.domain, DefaultDomain),
   attacker_ip   |-> OptionOr(args.attacker_ip, DefaultAttackerIp),
   attacker_mx   |-> OptionOr(args.attacker_mx, DefaultAttackerMx),
   verbose       |-> ~args.quiet]

\* the header of the queries of the lab's client
LabHeader == << 18, 52, 1, 0, 0, 1, 0, 0, 0, 0, 0, 0 >>

\* a query of the lab's client for the dotted name, as dig sends it
LabQuery(name, qtype) ==
  LabHeader \o WireName(Split(name)) \o PackH(qtype) \o PackH(1)

\* the datagrams of a run started from main: the MX queries for example.com
\* and Company.COM, the A queries for example.com and att.example.com, and an
\* MX query cut inside its name
LabDatagrams ==
  { LabQuery(<< 101, 120, 97, 109, 112, 108, 101, 46, 99, 111, 109 >>, 15),
    LabQuery(DefaultAttackerMx, 1),
    LabQuery(<< 67, 111, 109, 112, 97, 110, 121, 46, 67, 79, 77 >>, 15),
    LabQuery(<< 101, 120, 97, 109, 112, 108, 101, 46, 99, 111, 109 >>, 1),
    SubSeq(LabQuery(<< 101, 120, 97, 109, 112, 108, 101, 46, 99, 111, 109 >>, 15), 1, 20) }

(***************************************************************************)
(* run_dns_spoofer                                                         *)
(***************************************************************************)
VARIABLES argv, cfg, pc, sock, exit_code, data, addr, query, response,
          sends, caught, wire, stderr_lines, svc

\* the variables of the responder
responder == << argv, cfg, pc, sock, exit_code, data, addr, query, response,
                sends, caught, wire, stderr_lines >>

vars == << responder, svc >>

\* check_service_up has not been called
NoService == [pc |-> "idle", timeout |-> 0, logfile |-> FALSE, start |-> 0, now |-> 0,
              result |-> << >>, outputs |-> << >>, cmds |-> 0, ret |-> "none"]

\* the value of the local query before line 158 assigns it
None == [ok |-> FALSE, domain |-> << >>, qtype |-> 0, qclass |-> 0, pos |-> 0]

\* no datagram has been handed to the network
NoWire == [bytes |-> << >>, to |-> "none"]

\* the value of cfg before parse_args returns
NoConfig == [forged_domain |-> << >>, attacker_ip |-> << >>,
             attacker_mx |-> << >>, verbose |-> FALSE]

\* lines 143-144: the socket is created, nothing is bound.  sends counts the
\* sendto calls that returned since the last recvfrom did, caught is the
\* class of the exception a handler (line 169, 174 or 177) caught since then,
\* wire the datagram the last sendto handed to the network, stderr_lines the
\* number of lines written to sys.stderr.  A print to sys.stdout may raise
\* (the reader of a pipe has gone, the disk of the log file is full); the
\* class BrokenPipeError stands for every such error.
Init ==
  /\ argv = NoArgv
  /\ cfg \in Configs
  /\ pc = "start"
  /\ sock = "open"
  /\ exit_code = -1
  /\ data = << >>
  /\ addr = "none"
  /\ query = None
  /\ response = << >>
  /\ sends = 0
  /\ caught = "none"
  /\ wire = NoWire
  /\ stderr_lines = 0
  /\ svc = NoService

\* the process has been started with a command line; main has not run yet
MainInit ==
  /\ argv \in { [domain |-> a.domain, attacker_ip |-> a.attacker_ip,
                 attacker_mx |-> a.attacker_mx, quiet |-> a.quiet, main |-> TRUE] :
                a \in CommandLines }
  /\ cfg = NoConfig
  /\ pc = "main"
  /\ sock = "none"
  /\ exit_code = -1
  /\ data = << >>
  /\ addr = "none"
  /\ query = None
  /\ response = << >>
  /\ sends = 0
  /\ caught = "none"
  /\ wire = NoWire
  /\ stderr_lines = 0
  /\ svc = NoService

\* A run started from main handles the few datagrams of LabDatagrams and keeps
\* the locals of an iteration into the next one, as Python does.  A run of
\* Spec handles every datagram of Datagrams; there the values an iteration
\* leaves behind are dropped when it ends (each is assigned again before the
\* next iteration reads it), which keeps the state space small.
KeepsLocals == argv.main

\* what recvfrom may return in this run
Inbound == IF argv.main THEN LabDatagrams ELSE Datagrams

\* lines 216-225 and 143-144: parse_args, then run_dns_spoofer creates the socket
ParseArgs ==
  /\ pc = "main"
  /\ cfg' = ConfigOf(argv)
  /\ sock' = "open"
  /\ pc' = "start"
  /\ UNCHANGED << svc, argv, exit_code, data, addr, query, response, sends, caught,
                  wire, stderr_lines >>

\* the top of the while loop, reached by falling off the end of the body or by
\* the continue of line 172 after an exception of class e
NextIteration(e) ==
  /\ pc' = "recv"
  /\ caught' = e
  /\ IF KeepsLocals
     THEN UNCHANGED << data, addr, query, response, wire >>
     ELSE /\ data' = << >>
          /\ addr' = "none"
          /\ query' = None
          /\ response' = << >>
          /\ wire' = NoWire

\* line 147: bind succeeds
Bind ==
  /\ pc = "start"
  /\ pc' = "recv"
  /\ UNCHANGED << svc, argv, cfg, sock, exit_code, data, addr, query, response,
                  sends, caught, wire, stderr_lines >>

\* variant of BindFail: the error is reported only when verbose
BindFailQuiet ==
  /\ pc = "start"
  /\ pc' = "stopped"
  /\ sock' = "closed"
  /\ exit_code' = 1
  /\ caught' = "OSError"
  /\ stderr_lines' = IF cfg.verbose THEN stderr_lines + 1 ELSE stderr_lines
  /\ UNCHANGED << svc, argv, cfg, data, addr, query, response, sends, wire >>

\* variant of BindFail: the function returns without closing the socket
BindFailLeaksSocket ==
  /\ pc = "start"
  /\ pc' = "stopped"
  /\ exit_code' = 1
  /\ caught' = "OSError"
  /\ stderr_lines' = stderr_lines + 1
  /\ UNCHANGED << svc, argv, cfg, sock, data, addr, query, response, sends, wire >>

\* lines 147, 177-181: bind raises; line 177 catches the error, line 178 prints
\* it to sys.stderr whatever verbose is, the socket is closed and 1 returned
BindFail ==
  /\ pc = "start"
  /\ pc' = "stopped"
  /\ sock' = "closed"
  /\ exit_code' = 1
  /\ caught' = "OSError"
  /\ stderr_lines' = stderr_lines + 1
  /\ UNCHANGED << svc, argv, cfg, data, addr, query, response, sends, wire >>

\* lines 149-151, 177-181: verbose only; bind succeeded and a print of the
\* banner raises, which line 177 catches
BannerFail ==
  /\ pc = "start"
  /\ cfg.verbose
  /\ pc' = "stopped"
  /\ sock' = "closed"
  /\ exit_code' = 1
  /\ caught' = "BrokenPipeError"
  /\ stderr_lines' = stderr_lines + 1
  /\ UNCHANGED << svc, argv, cfg, data, addr, query, response, sends, wire >>

\* line 155: recvfrom returns a datagram and its source
Recv ==
  /\ pc = "recv"
  /\ \E d \in Inbound, a \in Addrs :
       /\ data' = d
       /\ addr' = a
  /\ sends' = 0
  /\ caught' = "none"
  /\ pc' = IF cfg.verbose THEN "log_query" ELSE "build"
  /\ UNCHANGED << svc, argv, cfg, sock, exit_code, query, response, wire, stderr_lines >>

\* lines 157-160: verbose only; DNSQuery may raise, which line 169 catches
LogQuery ==
  /\ pc = "log_query"
  /\ LET q == DNSQuery(data) IN
       IF q.ok
       THEN /\ query' = q
            /\ pc' = "build"
            /\ UNCHANGED << data, addr, response, caught, wire >>
       ELSE NextIteration("IndexError")
  /\ UNCHANGED << svc, argv, cfg, sock, exit_code, sends, stderr_lines >>

\* lines 158-160, 169-172: DNSQuery returns and the print of line 160 raises;
\* line 169 catches the error, line 171 prints and the loop goes on
LogQueryFail ==
  /\ pc = "log_query"
  /\ DNSQuery(data).ok
  /\ IF KeepsLocals
     THEN /\ query' = DNSQuery(data)
          /\ pc' = "recv"
          /\ caught' = "BrokenPipeError"
          /\ UNCHANGED << data, addr, response, wire >>
     ELSE NextIteration("BrokenPipeError")
  /\ UNCHANGED << svc, argv, cfg, sock, exit_code, sends, stderr_lines >>

\* variant of Build: a response that could not be built is answered with an
\* empty datagram
BuildRepliesOnError ==
  /\ pc = "build"
  /\ LET r == BuildDnsResponse(data, cfg.forged_domain, cfg.attacker_ip, cfg.attacker_mx) IN
       /\ response' = r.bytes
       /\ pc' = "send"
       /\ UNCHANGED << data, addr, query, caught, wire >>
  /\ UNCHANGED << svc, argv, cfg, sock, exit_code, sends, stderr_lines >>

\* variant of Build: a response left by an earlier iteration is sent again
BuildFromStaleResponse ==
  /\ pc = "build"
  /\ LET r == BuildDnsResponse(data, cfg.forged_domain, cfg.attacker_ip, cfg.attacker_mx) IN
       IF r.ok
       THEN /\ response' = IF response = << >> THEN r.bytes ELSE response
            /\ pc' = "send"
            /\ UNCHANGED << data, addr, query, caught, wire >>
       ELSE NextIteration(r.error)
  /\ UNCHANGED << svc, argv, cfg, sock, exit_code, sends, stderr_lines >>

\* line 163: build_dns_response returns or raises
Build ==
  /\ pc = "build"
  /\ LET r == BuildDnsResponse(data, cfg.forged_domain, cfg.attacker_ip, cfg.attacker_mx) IN
       IF r.ok
       THEN /\ response' = r.bytes
            /\ pc' = "send"
            /\ UNCHANGED << data, addr, query, caught, wire >>
       ELSE NextIteration(r.error)
  /\ UNCHANGED << svc, argv, cfg, sock, exit_code, sends, stderr_lines >>

\* variant of Send: every reply goes to the first host
SendToFirstHost ==
  /\ pc = "send"
  /\ pc' = "sent"
  /\ sends' = sends + 1
  /\ wire' = [bytes |-> response, to |-> "h1"]
  /\ UNCHANGED << svc, argv, cfg, sock, exit_code, data, addr, query, response,
                  caught, stderr_lines >>

\* line 164: sendto hands the response to the network, addressed to addr
Send ==
  /\ pc = "send"
  /\ pc' = "sent"
  /\ sends' = sends + 1
  /\ wire' = [bytes |-> response, to |-> addr]
  /\ UNCHANGED << svc, argv, cfg, sock, exit_code, data, addr, query, response,
                  caught, stderr_lines >>

\* lines 164, 169-172: sendto raises; the error is caught and the loop goes on
SendFail ==
  /\ pc = "send"
  /\ NextIteration("OSError")
  /\ UNCHANGED << svc, argv, cfg, sock, exit_code, sends, stderr_lines >>

\* lines 166-167: the forged reply is logged, the iteration ends
LogForged ==
  /\ pc = "sent"
  /\ NextIteration("none")
  /\ UNCHANGED << svc, argv, cfg, sock, exit_code, sends, stderr_lines >>

\* the condition of line 166, on the query object of line 158
LogsForged ==
  /\ cfg.verbose
  /\ query.qtype = 15
  /\ Lower(query.domain) = Lower(cfg.forged_domain)

\* lines 166-172: the reply has been sent and the print of line 167 raises;
\* line 169 catches the error, line 171 prints and the loop goes on
LogForgedFail ==
  /\ pc = "sent"
  /\ LogsForged
  /\ NextIteration("BrokenPipeError")
  /\ UNCHANGED << svc, argv, cfg, sock, exit_code, sends, stderr_lines >>

\* an exception reaches the handler of line 169 from this position: DNSQuery
\* or the print of line 160, build_dns_response, sendto, the print of line 167
ReachesHandler ==
  \/ pc \in { "log_query", "send" }
  \/ pc = "build" /\ ~BuildDnsResponse(data, cfg.forged_domain, cfg.attacker_ip, cfg.attacker_mx).ok
  \/ pc = "sent" /\ LogsForged

\* lines 169-171, 177-181: verbose only; the print of line 171 raises inside the
\* handler, so the error leaves the while loop; line 177 catches it, line 178
\* prints it to sys.stderr, the socket is closed and 1 returned
HandlerFail ==
  /\ cfg.verbose
  /\ ReachesHandler
  /\ pc' = "stopped"
  /\ sock' = "closed"
  /\ exit_code' = 1
  /\ caught' = "BrokenPipeError"
  /\ stderr_lines' = stderr_lines + 1
  /\ data' = << >>
  /\ addr' = "none"
  /\ query' = None
  /\ response' = << >>
  /\ wire' = IF KeepsLocals THEN wire ELSE NoWire
  /\ UNCHANGED << svc, argv, cfg, sends >>

\* lines 174-176, 180-181: verbose only; KeyboardInterrupt is caught and the
\* print of line 176 raises; the socket is closed by line 181, the error leaves
\* run_dns_spoofer and main, and the interpreter exits with status 1 after
\* writing the traceback to sys.stderr
InterruptLogFail ==
  /\ pc \in { "recv", "log_query", "build", "send", "sent" }
  /\ cfg.verbose
  /\ pc' = "stopped"
  /\ sock' = "closed"
  /\ exit_code' = 1
  /\ caught' = "KeyboardInterrupt"
  /\ stderr_lines' = stderr_lines + 1
  /\ data' = << >>
  /\ addr' = "none"
  /\ query' = None
  /\ response' = << >>
  /\ wire' = IF KeepsLocals THEN wire ELSE NoWire
  /\ UNCHANGED << svc, argv, cfg, sends >>

\* lines 174-183: KeyboardInterrupt inside the try is caught by line 174; the
\* socket is closed and 0 returned, which ends the life of the locals
Interrupt ==
  /\ pc \in { "recv", "log_query", "build", "send", "sent" }
  /\ pc' = "stopped"
  /\ sock' = "closed"
  /\ exit_code' = 0
  /\ caught' = "KeyboardInterrupt"
  /\ data' = << >>
  /\ addr' = "none"
  /\ query' = None
  /\ response' = << >>
  /\ wire' = IF KeepsLocals THEN wire ELSE NoWire
  /\ UNCHANGED << svc, argv, cfg, sends, stderr_lines >>

Next ==
  \/ Bind
  \/ BindFail
  \/ Recv
  \/ LogQuery
  \/ Build
  \/ Send
  \/ SendFail
  \/ LogForged
  \/ Interrupt
  \/ BannerFail
  \/ LogQueryFail
  \/ LogForgedFail
  \/ HandlerFail
  \/ InterruptLogFail

Spec == Init /\ [][Next]_vars

\* a run of the process: main, then run_dns_spoofer
MainNext ==
  \/ ParseArgs
  \/ Bind
  \/ BindFail
  \/ Recv
  \/ LogQuery
  \/ Build
  \/ Send
  \/ SendFail
  \/ LogForged
  \/ Interrupt
  \/ BannerFail
  \/ LogQueryFail
  \/ LogForgedFail
  \/ HandlerFail
  \/ InterruptLogFail

MainSpec == MainInit /\ [][MainNext]_vars

\* a step of the thread other than the return of recvfrom and an interrupt
Step ==
  \/ ParseArgs
  \/ Bind
  \/ BindFail
  \/ BannerFail
  \/ LogQuery
  \/ LogQueryFail
  \/ Build
  \/ Send
  \/ SendFail
  \/ LogForged
  \/ LogForgedFail
  \/ HandlerFail

\* The process is one thread of straight-line code: a call that has been
\* reached returns or raises, so a state in which Step is enabled is left.
\* recvfrom alone may block for ever, and no interrupt need ever come.
FairMainSpec == MainSpec /\ WF_vars(Step)

(***************************************************************************)
(* Reading a response as a resolver does (RFC 1035 section 4.1)            *)
(***************************************************************************)
\* the response of the datagram in hand has been built
HasResponse == pc \in { "send", "sent" }

\* the 16-bit count at position i of the header
CountAt(resp, i) == (At(resp, i) * 256) + At(resp, i + 1)

\* the position after the name that starts at pos: labels up to a zero byte,
\* or a two-byte pointer; -1 if the name runs off the message
RECURSIVE NameEnd(_, _)
NameEnd(b, pos) ==
  IF pos >= Len(b) THEN -1
  ELSE IF At(b, pos) = 0 THEN pos + 1
  ELSE IF At(b, pos) >= 192 THEN (IF pos + 2 <= Len(b) THEN pos + 2 ELSE -1)
  ELSE NameEnd(b, pos + 1 + At(b, pos))

\* the position after the question of a message, -1 if it has no complete one
QuestionEnd(b) ==
  LET e == NameEnd(b, 12) IN
  IF e = -1 \/ e + 4 > Len(b) THEN -1 ELSE e + 4

\* the resource records that start at pos, read one after the other
RECURSIVE RecordsFrom(_, _)
RecordsFrom(b, pos) ==
  IF pos < 0 \/ pos >= Len(b) THEN << >>
  ELSE
    LET ne == NameEnd(b, pos) IN
    IF ne = -1 \/ ne + 10 > Len(b) THEN << >>
    ELSE
      LET rdlen == CountAt(b, ne + 8) IN
      IF ne + 10 + rdlen > Len(b) THEN << >>
      ELSE << [name  |-> SubSeq(b, pos + 1, ne),
               type  |-> CountAt(b, ne),
               class |-> CountAt(b, ne + 2),
               ttl   |-> (CountAt(b, ne + 4) * 65536) + CountAt(b, ne + 6),
               rdata |-> SubSeq(b, ne + 11, ne + 10 + rdlen)] >>
           \o RecordsFrom(b, ne + 10 + rdlen)

\* the resource records a resolver finds behind the question of a response
BodyRecords(resp) == RecordsFrom(resp, QuestionEnd(resp))

\* the query is an MX query for the forged domain, letter case apart
IsForgeCase ==
  LET q == DNSQuery(data) IN
  q.ok /\ q.qtype = 15 /\ Lower(q.domain) = Lower(cfg.forged_domain)

\* the decimal text of an octet
Decimal(n) ==
  IF n < 10 THEN << 48 + n >>
  ELSE IF n < 100 THEN << 48 + (n \div 10), 48 + (n % 10) >>
  ELSE << 48 + (n \div 100), 48 + ((n \div 10) % 10), 48 + (n % 10) >>

\* the dotted-quad text of four octets
DottedQuad(o) ==
  Decimal(o[1]) \o << 46 >> \o Decimal(o[2]) \o << 46 >>
    \o Decimal(o[3]) \o << 46 >> \o Decimal(o[4])

(***************************************************************************)
(* Claims                                                                  *)
(***************************************************************************)
\* C1: a response carries an MX answer record and an additional A record
\* exactly when the decoded qtype is 15 and the decoded domain equals the
\* forged domain once both are lower-cased; otherwise nothing follows the
\* echoed question: the rest of the response is bytes of the query and a
\* resolver finds no record in it.
C1_ForgedRecordsIffMxForForgedDomain ==
  HasResponse =>
    LET rr == BodyRecords(response) IN
    IF IsForgeCase
    THEN Len(rr) = 2 /\ rr[1].type = 15 /\ rr[2].type = 1
    ELSE /\ rr = << >>
         /\ SubSeq(response, 13, Len(response)) = Slice(data, 12, Len(response))

\* C1 witness: an MX query whose name differs from the forged domain in letter
\* case only has been answered with the two records.
C1_Witness ==
  /\ pc = "sent"
  /\ IsForgeCase
  /\ DNSQuery(data).domain # cfg.forged_domain
  /\ Len(BodyRecords(response)) = 2

\* C2 (as claimed): whenever qtype is not 15 or the domain is not the forged
\* domain, the header of the response declares no answer and no additional
\* record.
C2_NoCountsWithoutForgery ==
  (HasResponse /\ ~IsForgeCase) =>
    (CountAt(response, 6) = 0 /\ CountAt(response, 10) = 0)

\* C3 (as claimed): the counts of the header are the sections of the body: one
\* question, as many answers (0 or 1) and additionals (0 or 1) as records
\* follow the question, no authority record.
C3_CountsMatchSections ==
  HasResponse =>
    LET rr == BodyRecords(response)
        an == CountAt(response, 6)
        ar == CountAt(response, 10)
    IN  /\ CountAt(response, 4) = 1
        /\ CountAt(response, 8) = 0
        /\ an \in { 0, 1 } /\ ar \in { 0, 1 }
        /\ an + ar = Len(rr)
        /\ an = 1 => rr[1].type = 15
        /\ ar = 1 => rr[Len(rr)].type = 1

\* the text is four decimal octets 0..255 joined by dots
IsDottedQuad(ip) ==
  LET parts == Split(ip) IN
  /\ Len(parts) = 4
  /\ \A i \in 1..4 : \E n \in 0..255 : parts[i] = Decimal(n)

\* C4: an MX query for the forged domain, with an attacker IP that is a dotted
\* quad, is answered with answer-count 1, additional-count 1 and an additional
\* A record whose RDATA is the four octets of the attacker IP in order.
C4_ForgedCountsAndAddress ==
  (HasResponse /\ IsForgeCase /\ IsDottedQuad(cfg.attacker_ip)) =>
    LET rr == BodyRecords(response) IN
    /\ CountAt(response, 6) = 1
    /\ CountAt(response, 10) = 1
    /\ Len(rr) = 2
    /\ rr[2].type = 1
    /\ Len(rr[2].rdata) = 4
    /\ \A i \in 1..4 : rr[2].rdata[i] \in 0..255
    /\ DottedQuad(rr[2].rdata) = cfg.attacker_ip

\* C4 witness: a forged reply that carries 192.168.1.100 has been sent.
C4_Witness ==
  /\ pc = "sent"
  /\ IsForgeCase
  /\ cfg.attacker_ip = DottedQuad(<< 192, 168, 1, 100 >>)
  /\ BodyRecords(response)[2].rdata = << 192, 168, 1, 100 >>

\* C5: bytes 0-1 of every response are bytes 0-1 of the datagram it answers.
C5_TransactionIdEchoed ==
  HasResponse => SubSeq(response, 1, 2) = SubSeq(data, 1, 2)

\* C5 witness: a reply to a query with transaction id 0xABCD has been sent.
C5_Witness ==
  /\ pc = "sent"
  /\ SubSeq(data, 1, 2) = << 171, 205 >>
  /\ SubSeq(response, 1, 2) = << 171, 205 >>

\* C6 (as claimed): the question section of the response is the slice of the
\* datagram from offset 12 to four bytes past the position where DNSQuery
\* finished the name, in the forged and in the empty-answer case.
C6_QuestionEchoedToParserEnd ==
  HasResponse =>
    LET q == DNSQuery(data)
        expected == Slice(data, 12, q.pos + 4)
    IN  /\ Slice(response, 12, 12 + Len(expected)) = expected
        /\ ~IsForgeCase => Len(response) = 12 + Len(expected)

\* C7: bytes 2-3 of every response are 0x81 0x80, whatever the flags of the
\* query and whether the answer is forged or empty.
C7_FixedFlags ==
  HasResponse => SubSeq(response, 3, 4) = << 129, 128 >>

\* C7 witness: a query whose flags carry opcode 5 and no RD bit has been
\* answered with flags 0x8180.
C7_Witness ==
  /\ pc = "sent"
  /\ SubSeq(data, 3, 4) = << 40, 0 >>
  /\ SubSeq(response, 3, 4) = << 129, 128 >>
\* the name that starts at pos ends in a zero length byte inside the buffer,
\* each length byte and the label behind it lying inside the buffer too
RECURSIVE NameTerminated(_, _)
NameTerminated(b, pos) ==
  /\ pos < Len(b)
  /\ \/ At(b, pos) = 0
     \/ NameTerminated(b, pos + 1 + At(b, pos))

\* the labels joined by dots, built from the last label backwards
RECURSIVE DotJoined(_)
DotJoined(ls) ==
  IF Len(ls) = 0 THEN << >>
  ELSE IF Len(ls) = 1 THEN ls[1]
  ELSE DotJoined(SubSeq(ls, 1, Len(ls) - 1)) \o << 46 >> \o ls[Len(ls)]

\* the well-formed questions: ASCII labels behind their length bytes, the
\* terminator, QTYPE and QCLASS, and nothing else
WellFormedQuestions ==
  { [labels |-> ls, qtype |-> qt,
     wire |-> WireName(ls) \o PackH(qt) \o PackH(1)] :
      ls \in { x \in LabelSeqs(MaxLabels) :
                 \A i \in 1..Len(x) : \A j \in 1..Len(x[i]) : x[i][j] < 128 },
      qt \in QueryTypes }

\* C8: for a well-formed single-question query (any 12-byte header, ASCII
\* labels each behind its length, zero terminator, QTYPE, QCLASS) DNSQuery
\* yields the labels joined by '.', letter case kept, and the big-endian QTYPE
\* and QCLASS; the local query of the verbose loop holds that value.
C8_WellFormedQueryDecoded ==
  pc \in { "log_query", "build" } =>
    \A w \in WellFormedQuestions :
      (Len(data) >= 12 /\ SubSeq(data, 13, Len(data)) = w.wire) =>
        LET q == DNSQuery(data) IN
        /\ q.ok
        /\ q.domain = DotJoined(w.labels)
        /\ q.qtype = w.qtype
        /\ q.qclass = 1
        /\ (pc = "build" /\ cfg.verbose) => query = q

\* C8 witness: the verbose loop has decoded the MX query for "A.b".
C8_Witness ==
  /\ pc = "build"
  /\ cfg.verbose
  /\ SubSeq(data, 13, Len(data)) = << 1, 65, 1, 98, 0, 0, 15, 0, 1 >>
  /\ query.domain = << 65, 46, 98 >>
  /\ query.qtype = 15
  /\ query.qclass = 1

\* C9: a buffer of 12 bytes or fewer, one whose label length runs past the end
\* and one without a terminator never decode: DNSQuery raises, and the local
\* query never holds a value for such a buffer.
C9_MalformedNeverDecodes ==
  (pc \in { "log_query", "build", "send", "sent" } /\ ~NameTerminated(data, 12)) =>
    (~DNSQuery(data).ok /\ ~query.ok /\ pc \in { "log_query", "build" })

\* C9 witness: build_dns_response is about to decode a buffer longer than the
\* header whose last label runs past its end.
C9_Witness ==
  /\ pc = "build"
  /\ Len(data) > 13
  /\ At(data, 12) # 0
  /\ ~NameTerminated(data, 12)
  /\ ~DNSQuery(data).ok

\* C10: a step of the loop that works on a datagram that does not decode
\* ends the iteration with no sendto done and the loop back at recvfrom,
\* unless it is the interrupt; this holds for the verbose decoding of line
\* 158 and for the decoding inside build_dns_response.
C10_UndecodableDatagramDropped ==
  [][(pc \in { "log_query", "build" } /\ ~DNSQuery(data).ok) =>
       \/ pc' = "recv" /\ sends' = 0 /\ caught' = "IndexError"
       \/ pc' = "stopped" /\ sends' = 0 /\ caught' = "KeyboardInterrupt"]_vars

\* the steps of a process started with -q
C10_QuietRuns ==
  [][(~cfg.verbose /\ pc \in { "log_query", "build" } /\ ~DNSQuery(data).ok) =>
       \/ pc' = "recv" /\ sends' = 0 /\ caught' = "IndexError"
       \/ pc' = "stopped" /\ sends' = 0 /\ caught' = "KeyboardInterrupt"]_vars

\* C10 witness: the quiet loop is back at recvfrom after an IndexError, having
\* sent nothing.
C10_Witness ==
  /\ pc = "recv"
  /\ ~cfg.verbose
  /\ caught = "IndexError"
  /\ sends = 0

(***************************************************************************)
(* The service loop: errors, termination, sends                            *)
(***************************************************************************)
\* the positions of the while loop of lines 153-172
Serving == { "recv", "log_query", "build", "send", "sent" }

\* C11: a step of the loop in which an exception raised while a datagram is
\* handled (decode, encode, send) is caught leaves the responder in the loop
\* with the socket open and no exit status, so that after any finite sequence
\* of datagrams, failing or not, it is still serving.
C11_ErrorsKeepServing ==
  [][(pc \in Serving /\ caught' \notin { "none", "KeyboardInterrupt" })
       => /\ pc' \in Serving
          /\ sock' = "open"
          /\ exit_code' = -1]_vars

\* C12: a step that takes the serving loop to Stopped, or sets an exit status,
\* is the catch of an interrupt, closes the socket and gives exit status 0.
C12_StoppedOnlyByInterrupt ==
  [][(pc \in Serving /\ (pc' = "stopped" \/ exit_code' # -1))
       => /\ caught' = "KeyboardInterrupt"
          /\ sock' = "closed"
          /\ exit_code' = 0]_vars

\* C13: the step in which bind fails ends run_dns_spoofer: the socket is
\* closed, the exit status is set and is not 0, one line goes to stderr whether
\* quiet or not, and no datagram has been received or sent; and no step leaves
\* Stopped, so there is no second bind, no loop, no receive and no send after.
C13_BindFailureIsFatal ==
  [][/\ (pc = "start" /\ caught' = "OSError")
          => /\ pc' = "stopped"
             /\ sock' = "closed"
             /\ exit_code' \notin { -1, 0 }
             /\ stderr_lines' = stderr_lines + 1
             /\ sends' = 0
             /\ data' = << >>
             /\ wire' = NoWire
     /\ pc # "stopped"]_vars

\* C13 witness: bind has failed in quiet mode
C13_Witness ==
  /\ pc = "stopped"
  /\ caught = "OSError"
  /\ argv.quiet
  /\ stderr_lines = 1
  /\ exit_code = 1
  /\ sock = "closed"

\* C14: at most one sendto returns per datagram received; a datagram goes to
\* the network only in a step from the sendto of line 164, with a received
\* datagram in hand and no send yet for it, and it carries the response built
\* for that datagram to the address recvfrom returned with it; a sendto that
\* raises is followed by recvfrom, not by another sendto, and so is one that
\* returned.
C14_AtMostOneSendToTheSource ==
  [][/\ sends' <= 1
     /\ (sends' > sends \/ wire' # wire)
          => /\ pc = "send"
             /\ data \in Inbound
             /\ addr \in Addrs
             /\ sends = 0
             /\ sends' = 1
             /\ wire' = [bytes |-> response, to |-> addr]
     /\ (pc = "send" /\ caught' = "OSError")
          => (pc' = "recv" /\ sends' = 0 /\ wire' = wire)
     /\ pc = "sent" => pc' \in { "recv", "stopped" }]_vars

\* C14 witness: the datagram of the second host has been answered, once, to
\* the second host
C14_Witness ==
  /\ pc = "sent"
  /\ addr = "h2"
  /\ sends = 1
  /\ wire = [bytes |-> response, to |-> "h2"]

(***************************************************************************)
(* The records of a forged response                                        *)
(***************************************************************************)
\* the labels of the uncompressed name that starts at pos
RECURSIVE NameLabels(_, _)
NameLabels(b, pos) ==
  IF pos >= Len(b) \/ At(b, pos) = 0 THEN << >>
  ELSE << Slice(b, pos + 1, pos + 1 + At(b, pos)) >>
         \o NameLabels(b, pos + 1 + At(b, pos))

\* the host name an MX record points to, as dotted text: RDATA after the
\* two bytes of the preference
MxTarget(resp) == DotJoined(NameLabels(BodyRecords(resp)[1].rdata, 2))

\* name is domain with at least one more label in front, letter case apart
IsSubdomainOf(name, domain) ==
  LET n == Lower(name)
      d == << 46 >> \o Lower(domain)
  IN  /\ Len(n) > Len(d)
      /\ SubSeq(n, Len(n) - Len(d) + 1, Len(n)) = d

\* a forged response has been built by a process started without --attacker-mx
ForgedWithoutMxOption ==
  /\ argv.main
  /\ argv.attacker_mx = << >>
  /\ HasResponse
  /\ IsForgeCase

\* C15 as stated: when --attacker-mx is omitted, the MX target of a forged
\* response is a subdomain of the forged domain, whatever --domain is.
C15_OmittedMxIsSubdomainOfForgedDomain ==
  ForgedWithoutMxOption => IsSubdomainOf(MxTarget(response), cfg.forged_domain)

\* C15 amended: when --attacker-mx is omitted, the MX target of a forged
\* response is att.example.com, whatever --domain is; it is a subdomain of the
\* forged domain when --domain is omitted too.
C15_OmittedMxIsAttExampleCom ==
  ForgedWithoutMxOption =>
    /\ MxTarget(response) = << 97, 116, 116, 46, 101, 120, 97, 109, 112, 108, 101, 46, 99, 111, 109 >>
    /\ argv.domain = << >> => IsSubdomainOf(MxTarget(response), cfg.forged_domain)

\* C15 witness: a forged response of a process started with --domain and
\* without --attacker-mx has been sent
C15_Witness ==
  /\ ForgedWithoutMxOption
  /\ pc = "sent"
  /\ argv.domain # << >>

(***************************************************************************)
(* One datagram at a time                                                  *)
(***************************************************************************)
\* a well-formed query is in hand, not yet answered, and the configuration
\* encodes for it
Answerable ==
  /\ pc \in { "log_query", "build", "send" }
  /\ sends = 0
  /\ DNSQuery(data).ok
  /\ BuildDnsResponse(data, cfg.forged_domain, cfg.attacker_ip, cfg.attacker_mx).ok

\* C16: a step back to recvfrom ends the handling of a datagram with exactly
\* one of a completed send (and no error caught) or the error path (and no
\* send); and a well-formed query in hand, with a configuration that encodes,
\* is eventually answered by its one reply before the next recvfrom, unless
\* the send fails or the responder is interrupted.
C16_OneDatagramAtATime ==
  /\ [][(pc \in { "log_query", "build", "send", "sent" } /\ pc' = "recv")
          => \/ sends' = 1 /\ caught' = "none"
             \/ sends' = 0 /\ caught' # "none"]_vars
  /\ Answerable ~> \/ pc = "sent" /\ sends = 1
                   \/ caught = "OSError"
                   \/ pc = "stopped" /\ caught = "KeyboardInterrupt"

Outcome == BuildDnsResponse(data, cfg.forged_domain, cfg.attacker_ip, cfg.attacker_mx)

TargetOnWire == WireName(Split(cfg.attacker_mx))

\* the position of the first byte after the question of the response
AnswerStart == QuestionEnd(response)

\* the RDLENGTH field of the record whose NAME is the pointer at AnswerStart
MxRdLength == CountAt(response, AnswerStart + 10)

\* the position of the first byte after the MX answer
AdditionalStart == AnswerStart + 12 + MxRdLength

\* C19: in a forged response the bytes after the question are C0 0C, TYPE 15,
\* CLASS 1, TTL 300, RDLENGTH = 2 + the length of the encoded MX target,
\* preference 10 and the encoded MX target; the RDATA of RDLENGTH bytes lies
\* inside the response.
C19_MxAnswerLayout ==
  (HasResponse /\ IsForgeCase) =>
    /\ AnswerStart # -1
    /\ Slice(response, AnswerStart, AnswerStart + 10)
         = << 192, 12, 0, 15, 0, 1, 0, 0, 1, 44 >>
    /\ MxRdLength = 2 + Len(TargetOnWire)
    /\ Slice(response, AnswerStart + 12, AdditionalStart) = << 0, 10 >> \o TargetOnWire
    /\ Len(Slice(response, AnswerStart + 12, AdditionalStart)) = MxRdLength
    /\ AdditionalStart < Len(response)

\* C19 witness: a forged response with the three-label target m.a.b is built
C19_Witness ==
  /\ pc = "send"
  /\ IsForgeCase
  /\ cfg.attacker_mx = << 109, 46, 97, 46, 98 >>
  /\ MxRdLength = 9

\* C20: in a forged response the record after the MX answer starts with the
\* uncompressed encoding of the attacker MX host name, the same bytes as the
\* target in the MX RDATA, followed by TYPE 1, CLASS 1, TTL 300, RDLENGTH 4
\* and four octets that end the response.
C20_ARecordLayout ==
  (HasResponse /\ IsForgeCase) =>
    LET name_end == AdditionalStart + Len(TargetOnWire) IN
    /\ Slice(response, AdditionalStart, name_end) = TargetOnWire
    /\ Slice(response, AdditionalStart, name_end)
         = Slice(response, AnswerStart + 14, AdditionalStart)
    /\ Slice(response, name_end, name_end + 10)
         = << 0, 1, 0, 1, 0, 0, 1, 44, 0, 4 >>
    /\ Len(response) = name_end + 14
    /\ \A i \in name_end + 10 .. name_end + 13 : At(response, i) \in 0..255

\* C20 witness: a forged response with the one-label target x has been sent
C20_Witness ==
  /\ pc = "sent"
  /\ IsForgeCase
  /\ cfg.attacker_mx = << 120 >>
  /\ Slice(response, AdditionalStart, AdditionalStart + 3) = << 1, 120, 0 >>

(***************************************************************************)
(* The response as one buffer                                              *)
(***************************************************************************)
\* the bytes of the datagram in hand that the response echoes: from offset 12
\* through the fourth byte after the first zero byte at or after offset 12,
\* or as many of them as the datagram has
EchoedQuestion ==
  LET zeros == { i \in 12..(Len(data) - 1) : At(data, i) = 0 }
      first == CHOOSE i \in zeros : \A j \in zeros : i <= j
  IN  SubSeq(data, 13, Min(first + 5, Len(data)))

\* C21: a forged response is 12 bytes of header, the echoed question, the MX
\* answer (pointer, fixed fields, preference, target) and the A record
\* (target, fixed fields, four octets), in that order and with nothing else;
\* every other response is 12 bytes of header and the echoed question.
C21_ResponseIsExactConcatenation ==
  HasResponse =>
    LET q  == EchoedQuestion
        t  == Len(TargetOnWire)
        mx == 12 + Len(q)
        a  == mx + 14 + t
    IN  /\ Slice(response, 12, mx) = q
        /\ IF IsForgeCase
           THEN /\ Slice(response, mx, mx + 4) = << 192, 12, 0, 15 >>
                /\ Slice(response, mx + 14, a) = TargetOnWire
                /\ Slice(response, a, a + t + 2) = TargetOnWire \o << 0, 1 >>
                /\ Len(response) = a + t + 14
           ELSE Len(response) = mx

\* C21 witness: a forged response of 63 bytes is built for a query of 22
\* bytes, whose last byte follows QCLASS and is not echoed
C21_Witness ==
  /\ pc = "send"
  /\ IsForgeCase
  /\ Len(data) = 22
  /\ Len(response) = 63

(***************************************************************************)
(* The name the forged answer belongs to                                   *)
(***************************************************************************)
\* the response in hand carries records behind the echoed question
HasForgedAnswer == HasResponse /\ Len(response) > 12 + Len(EchoedQuestion)

\* bytes with the ASCII capital letters replaced by their small letters
AsciiLower(b) == [i \in 1..Len(b) |-> IF b[i] >= 65 /\ b[i] <= 90 THEN b[i] + 32 ELSE b[i]]

\* the labels of the forged domain as bytes, small letters
ForgedLabels ==
  LET parts == Split(cfg.forged_domain)
  IN  [i \in 1..Len(parts) |-> AsciiLower(Utf8Encode(parts[i]))]

\* C22: in every forged response the name at offset 12, where the pointer
\* C0 0C of the MX answer leads, ends inside the echoed question and reads,
\* labels joined by dots and letter case apart, as the forged domain.
C22_PointerLeadsToForgedDomain ==
  HasForgedAnswer =>
    LET e == NameEnd(response, 12) IN
    /\ e # -1
    /\ e + 4 <= 12 + Len(EchoedQuestion)
    /\ AsciiLower(DotJoined(NameLabels(response, 12)))
         = AsciiLower(Utf8Encode(cfg.forged_domain))

\* C28: an MX query gets a forged answer only if the labels of its name, as
\* bytes on the wire and letter case apart, are the labels of the forged
\* domain: as many labels, each with the same bytes.
C28_ForgedOnlyForTheSameLabels ==
  HasForgedAnswer =>
    LET ls == NameLabels(data, 12) IN
    [i \in 1..Len(ls) |-> AsciiLower(ls[i])] = ForgedLabels

(***************************************************************************)
(* The encoded MX target                                                   *)
(***************************************************************************)
\* the bytes from pos on are labels of 1 to 63 bytes each, then one zero
\* byte, and nothing behind it
RECURSIVE IsHostName(_, _)
IsHostName(b, pos) ==
  /\ pos < Len(b)
  /\ IF At(b, pos) = 0 THEN pos + 1 = Len(b)
     ELSE At(b, pos) <= 63 /\ IsHostName(b, pos + 1 + At(b, pos))

\* the target of the MX answer of a response: RDATA behind the preference
MxTargetOnWire(resp) ==
  LET start == QuestionEnd(resp) + 12
  IN  Slice(resp, start + 2, start + CountAt(resp, start - 2))

\* C23: whatever --attacker-mx is, the MX target of a forged response is
\* labels of 1 to 63 bytes each behind their length bytes, then exactly one
\* zero byte; no empty label and no label of more than 63 bytes is sent.
C23_MxTargetIsAHostName ==
  (pc = "sent" /\ Len(wire.bytes) > 12 + Len(EchoedQuestion))
    => IsHostName(MxTargetOnWire(wire.bytes), 0)

(***************************************************************************)
(* Question counts and short questions                                     *)
(***************************************************************************)
\* the datagram with the question count of its header set to 1
WithOneQuestion(d) == [i \in 1..Len(d) |-> IF i = 5 THEN 0 ELSE IF i = 6 THEN 1 ELSE d[i]]

\* C24: the question count of the query has no effect: the response is the
\* one the same datagram with question count 1 gets, it declares one question
\* and it echoes the first question only.
C24_QuestionCountIsIgnored ==
  HasResponse =>
    /\ CountAt(response, 4) = 1
    /\ Slice(response, 12, 12 + Len(EchoedQuestion)) = EchoedQuestion
    /\ response = BuildDnsResponse(WithOneQuestion(data), cfg.forged_domain,
                                   cfg.attacker_ip, cfg.attacker_mx).bytes

\* C24 witness: a forged response is built for a query that declares two
\* questions
C24_Witness ==
  /\ pc = "send"
  /\ CountAt(data, 4) = 2
  /\ HasForgedAnswer

\* the name of the datagram in hand is terminated and fewer than 4 bytes
\* follow its terminator
ShortQuestion ==
  /\ pc \in { "build", "send", "sent" }
  /\ NameTerminated(data, 12)
  /\ NameEnd(data, 12) + 4 > Len(data)

\* C25: a datagram with a terminated name and fewer than 4 bytes behind it is
\* decoded with qtype 0 and qclass 0 and is answered: the response declares no
\* answer and no additional record, echoes what is left of the datagram from
\* offset 12 on, and carries nothing else.
C25_ShortQuestionGetsEmptyAnswer ==
  ShortQuestion =>
    LET q == DNSQuery(data) IN
    /\ q.ok /\ q.qtype = 0 /\ q.qclass = 0
    /\ Outcome.ok
    /\ CountAt(Outcome.bytes, 6) = 0
    /\ CountAt(Outcome.bytes, 10) = 0
    /\ Slice(Outcome.bytes, 12, Len(Outcome.bytes)) = Slice(data, 12, Len(data))
    /\ HasResponse => response = Outcome.bytes

(***************************************************************************)
(* The verbose flag                                                        *)
(***************************************************************************)
\* what a step does when verbose is off: a datagram that build_dns_response
\* encodes is given up only for a failed send or an interrupt, a reply is the
\* encoded response sent to the source, and the exit code is 1 only for a
\* failed bind and 0 only for an interrupt
QuietStep ==
  /\ (pc \in { "log_query", "build", "send" } /\ Outcome.ok
        /\ pc' \in { "recv", "stopped" } /\ sends' = 0)
       => caught' \in { "OSError", "KeyboardInterrupt" }
  /\ sends' > sends => wire' = [bytes |-> Outcome.bytes, to |-> addr]
  /\ (exit_code = -1 /\ exit_code' = 1) => (pc = "start" /\ caught' = "OSError")
  /\ (exit_code = -1 /\ exit_code' = 0) => caught' = "KeyboardInterrupt"
  /\ (caught' = "KeyboardInterrupt" /\ pc' = "stopped") => exit_code' \in { 0, exit_code }

\* C26: with verbose on, every step does to the datagrams, the replies and
\* the exit code what it does with verbose off: the same datagrams are
\* answered with the same bytes to the same hosts, the same datagrams are
\* dropped, and the process ends with the same exit code.
C26_VerboseOnlyLogs == [][QuietStep]_vars

\* the steps of a process started with -q
C26_QuietRuns == [][~cfg.verbose => QuietStep]_vars

(***************************************************************************)
(* A response that cannot be encoded                                       *)
(***************************************************************************)
\* the datagram in hand decodes, and encoding its response raises
EncodeFails == pc = "build" /\ DNSQuery(data).ok /\ ~Outcome.ok

\* what a step does about encoding: when it fails nothing is sent and the
\* loop goes on to the next datagram, unless an interrupt ends it; a reply is
\* the whole encoded response; and a decodable query that is not to be forged
\* encodes whatever the configuration is
EncodeStep ==
  /\ EncodeFails =>
       \/ pc' = "recv" /\ sock' = "open" /\ exit_code' = -1 /\ sends' = 0 /\ wire' = wire
       \/ caught' = "KeyboardInterrupt" /\ sends' = 0 /\ wire' = wire
  /\ sends' > sends => (Outcome.ok /\ wire'.bytes = Outcome.bytes)
  /\ (pc = "build" /\ DNSQuery(data).ok /\ ~IsForgeCase) => Outcome.ok

\* C27: a reply is the complete encoded response; when encoding fails part
\* way (here: --attacker-ip is not four octets) nothing is sent for the
\* datagram, the loop continues, and queries that are not forged are still
\* answered.
C27_FailedEncodingSendsNothing == [][EncodeStep]_vars

\* the steps of a process started with -q
C27_QuietRuns == [][~cfg.verbose => EncodeStep]_vars

(***************************************************************************)
(* The spoofing demonstration: h1 asks the spoofer with dig                *)
(***************************************************************************)
\* the answer section of a response: the records its answer count declares,
\* as far as they are there
AnswerSection(resp) ==
  LET rs == BodyRecords(resp)
  IN  SubSeq(rs, 1, Min(CountAt(resp, 6), Len(rs)))

\* dig_query: what dig +short prints for the response, stripped: the RDATA of
\* the answer as text, '10 host.' for an MX record and the dotted quad for an
\* A record, and '' when there is no answer
DigShort(resp) ==
  LET an == AnswerSection(resp) IN
  IF an = << >> THEN << >>
  ELSE IF an[1].type = 15
       THEN Decimal(CountAt(an[1].rdata, 0)) \o << 32 >>
              \o DotJoined(NameLabels(an[1].rdata, 2)) \o << 46 >>
  ELSE IF an[1].type = 1 /\ Len(an[1].rdata) = 4 THEN DottedQuad(an[1].rdata)
  ELSE << >>

\* s.split()[-1] of a stripped text: what follows its last space
RECURSIVE LastWord(_)
LastWord(s) ==
  IF s = << >> \/ s[Len(s)] = 32 THEN << >>
  ELSE Append(LastWord(SubSeq(s, 1, Len(s) - 1)), s[Len(s)])

\* s.rstrip('.')
RECURSIVE RStripDots(_)
RStripDots(s) ==
  IF s # << >> /\ s[Len(s)] = 46 THEN RStripDots(SubSeq(s, 1, Len(s) - 1)) ELSE s

\* lines 331-333 of the demonstration: mx_host, '' when the MX result is
\* empty or has fewer than two words
MxHost(forged_mx) ==
  IF LastWord(forged_mx) = forged_mx THEN << >> ELSE RStripDots(LastWord(forged_mx))

\* line 340 of the demonstration
AttackSuccess(a_result, att_ip) == a_result # << >> /\ a_result = att_ip

\* the spoofer of the demonstration: example.com, 10.0.0.66, att.example.com,
\* verbose
DemoSpoofer ==
  /\ argv.main
  /\ cfg = [forged_domain |-> DefaultDomain, attacker_ip |-> DefaultAttackerIp,
            attacker_mx |-> DefaultAttackerMx, verbose |-> TRUE]

\* the reply of the spoofer to h1 is on the wire
RepliedToH1 == DemoSpoofer /\ pc = "sent" /\ addr = "h1"

\* the host the demonstration asks the address of: the MX host of the
\* spoofer's reply to the MX query for example.com
DemoMxHost ==
  MxHost(DigShort(BuildDnsResponse(LabQuery(DefaultDomain, 15), DefaultDomain,
                                   DefaultAttackerIp, DefaultAttackerMx).bytes))

\* the reply to the MX query for example.com names att.example.com
C29_MxQueryReturnsForgedHost ==
  (RepliedToH1 /\ data = LabQuery(DefaultDomain, 15))
    => MxHost(DigShort(wire.bytes)) = DefaultAttackerMx

\* C29: in the demonstration the reply to h1's MX query for example.com names
\* the forged MX host, and the reply to h1's A query for that host gives the
\* attacker's address, so that the test of line 340 succeeds.
C29_DemoReachesAttackSuccess ==
  /\ C29_MxQueryReturnsForgedHost
  /\ (RepliedToH1 /\ data = LabQuery(DemoMxHost, 1))
       => AttackSuccess(DigShort(wire.bytes), DefaultAttackerIp)

(***************************************************************************)
(* check_service_up of mn_quickcheck_v6_with_dnssec.py                     *)
(*                                                                         *)
(* Time is counted in ticks of half a second, the length of the sleep of   *)
(* line 64; the clock does not run backwards.  A command and a sleep may   *)
(* take up to MaxDelay ticks more than they must.                          *)
(***************************************************************************)
\* the longest timeout, in ticks
MaxTimeout == 3

\* the ticks a command or a sleep may take on top of its least duration
MaxDelay == 1

\* the timeout argument: -1 (negative), 0, and the positive ones
PollTimeouts == -1..MaxTimeout

\* what the check command may print: nothing, an empty line, the line "1"
PollOutputs == { << >>, << 10 >>, << 49, 10 >> }

\* the white space of str.strip() that the outputs hold
IsSpace(c) == c \in { 9, 10, 11, 12, 13, 32 }

\* str.strip()
RECURSIVE Strip(_)
Strip(s) ==
  IF s = << >> THEN s
  ELSE IF IsSpace(Head(s)) THEN Strip(Tail(s))
  ELSE IF IsSpace(s[Len(s)]) THEN Strip(SubSeq(s, 1, Len(s) - 1))
  ELSE s

\* check_service_up is called
PollInit ==
  /\ svc \in { [pc |-> "start", timeout |-> t, logfile |-> l, start |-> 0, now |-> 0,
                result |-> << >>, outputs |-> << >>, cmds |-> 0, ret |-> "none"] :
               t \in PollTimeouts, l \in BOOLEAN }
  /\ argv = NoArgv
  /\ cfg = NoConfig
  /\ pc = "main"
  /\ sock = "none"
  /\ exit_code = -1
  /\ data = << >>
  /\ addr = "none"
  /\ query = None
  /\ response = << >>
  /\ sends = 0
  /\ caught = "none"
  /\ wire = NoWire
  /\ stderr_lines = 0

\* line 59: start = time.time()
PollStart ==
  /\ svc.pc = "start"
  /\ svc' = [svc EXCEPT !.pc = "test", !.start = svc.now]
  /\ UNCHANGED responder

\* line 60: while time.time() - start < timeout
PollTest ==
  /\ svc.pc = "test"
  /\ svc' = [svc EXCEPT !.pc = IF svc.now - svc.start < svc.timeout THEN "cmd" ELSE "diag"]
  /\ UNCHANGED responder

\* variant of PollCmd: the output is kept as the command printed it
PollCmdNoStrip ==
  /\ svc.pc = "cmd"
  /\ \E out \in PollOutputs, d \in 0..MaxDelay :
       svc' = [svc EXCEPT !.pc = "check", !.result = out,
                          !.outputs = Append(svc.outputs, out), !.now = svc.now + d]
  /\ UNCHANGED responder

\* line 61: result = h.cmd(check_command).strip()
PollCmd ==
  /\ svc.pc = "cmd"
  /\ \E out \in PollOutputs, d \in 0..MaxDelay :
       svc' = [svc EXCEPT !.pc = "check", !.result = Strip(out),
                          !.outputs = Append(svc.outputs, out), !.now = svc.now + d]
  /\ UNCHANGED responder

\* lines 62-63: if result: return True, ...
PollCheck ==
  /\ svc.pc = "check"
  /\ svc' = IF svc.result # << >>
            THEN [svc EXCEPT !.pc = "done", !.ret = "True"]
            ELSE [svc EXCEPT !.pc = "sleep"]
  /\ UNCHANGED responder

\* line 64: time.sleep(0.5)
PollSleep ==
  /\ svc.pc = "sleep"
  /\ \E d \in 0..MaxDelay : svc' = [svc EXCEPT !.pc = "test", !.now = svc.now + 1 + d]
  /\ UNCHANGED responder

\* lines 67-81: the process list, the log file if one is given, return False
PollDiag ==
  /\ svc.pc = "diag"
  /\ svc' = [svc EXCEPT !.pc = "done", !.ret = "False",
                        !.cmds = IF svc.logfile THEN 2 ELSE 1]
  /\ UNCHANGED responder

PollNext == PollStart \/ PollTest \/ PollCmd \/ PollCheck \/ PollSleep \/ PollDiag

PollSpec == PollInit /\ [][PollNext]_vars

\* every command of check_service_up returns and every sleep ends
FairPollSpec == PollSpec /\ WF_vars(PollNext)

\* the polls made so far whose output has a character that is not white space
NonBlankPolls == { i \in 1..Len(svc.outputs) : Strip(svc.outputs[i]) # << >> }

\* the polls made so far whose output is not empty
NonEmptyPolls == { i \in 1..Len(svc.outputs) : svc.outputs[i] # << >> }

\* the function has returned what the polls in hits demand: True when the
\* last poll is the first one in hits, False when hits is empty; it polls
\* only before the timeout has elapsed, never after a poll in hits, and not
\* at all when the timeout is not positive
ReturnsByFirstOf(hits) ==
  /\ hits \subseteq { Len(svc.outputs) }
  /\ hits # { } => svc.pc \in { "check", "done" }
  /\ svc.pc = "cmd" => svc.now - svc.start < svc.timeout
  /\ svc.timeout <= 0 => svc.outputs = << >>
  /\ svc.pc = "done" <=> svc.ret # "none"
  /\ svc.pc = "done" => (svc.ret = "True" <=> hits # { })
  /\ svc.pc = "done" => (svc.ret = "False" <=> hits = { })

====
